---- MODULE Spec2Model ----
(***************************************************************************)
(* Model of eat-ou: the Time / Hours / Restaurant schedule model           *)
(* (src/src/schedule.rs), the candidate engine and click-driven suggestion *)
(* cycle (src/src/www.rs) and the DOM-stored user-interface state          *)
(* (src/src/ui.rs).                                                        *)
(*                                                                         *)
(* Encodings used throughout:                                              *)
(*   Option<T>   : <<>> is None, <<x>> is Some(x)                          *)
(*   Vec<T>      : a sequence, index 1 is Rust index 0                     *)
(*   u8          : a natural below 256                                     *)
(*   String      : a TLA+ string; the order on names is NameRank           *)
(*   str of a Time: the sequence of its characters, each a 1-char string   *)
(***************************************************************************)
EXTENDS Integers, Sequences, FiniteSets, TLC

VARIABLES
    catalog,    \* Restaurant::get_list(): the static catalog (food.json)
    today,      \* what today() reads from the JavaScript clock
    now,        \* what now() reads from the JavaScript clock
    dom,        \* the document: data attributes, texts, listings, handlers
    calls,      \* log: the functions the last handled signal ran, in order
    cycle,      \* log: the suggestion cycle since the last start()
    tab_entry,  \* log: the document as it was when tabulation was entered
    sh,         \* the locals of one run of shuffle()
    ret,        \* the value returned by the last direct call of a function
    text        \* the str given to the direct calls of Time::from_str

vars == <<catalog, today, now, dom, calls, cycle, tab_entry, sh, ret, text>>

----------------------------------------------------------------------------
(* Bounds of the model *)

\* longest catalog drawn for the suggestion cycle
MaxCatalog == 3
\* longest catalog drawn for the direct calls of is_viable / get_viable
MaxViableCatalog == 3
\* longest vector (and number of distinct elements) given to shuffle
MaxShuffleLen == 3
\* longest str given to Time::from_str
MaxTextLen == 5

----------------------------------------------------------------------------
(* schedule.rs: Time *)

\* u8 has 2^8 values
U8Modulus == 256

\* Time::new(hours, minutes): `as u8` truncates
Time_new(hours, minutes) ==
    [hours |-> hours % U8Modulus, minutes |-> minutes % U8Modulus]

\* impl PartialOrd for Time comparing the minutes before the hours
partial_cmp_minutes_first(self, other) ==
    IF self.hours = other.hours /\ self.minutes = other.minutes
    THEN "Equal"
    ELSE IF self.minutes > other.minutes
            \/ (self.minutes = other.minutes /\ self.hours > other.hours)
         THEN "Greater"
         ELSE "Less"

\* impl PartialOrd for Time: partial_cmp
partial_cmp(self, other) ==
    IF self.hours = other.hours /\ self.minutes = other.minutes
    THEN "Equal"
    ELSE IF self.hours > other.hours
            \/ (self.hours = other.hours /\ self.minutes > other.minutes)
         THEN "Greater"
         ELSE "Less"

\* a < b, as PartialOrd derives it from partial_cmp
lt(a, b) == partial_cmp(a, b) = "Less"

\* a > b, as PartialOrd derives it from partial_cmp
gt(a, b) == partial_cmp(a, b) = "Greater"

\* impl Add<u8> for Time overflows u8 (a panic in a build with overflow
\* checks): only when the minutes sum or the hour increment leaves u8
add_overflows(self, rhs) ==
    \/ self.minutes + rhs >= U8Modulus
    \/ (self.minutes + rhs > 60 /\ self.hours + 1 >= U8Modulus)

\* impl Add<u8> for Time: add, in wrapping u8 arithmetic
add(self, rhs) ==
    LET minutes0 == (self.minutes + rhs) % U8Modulus
        carry    == minutes0 > 60
        hours1   == IF carry THEN (self.hours + 1) % U8Modulus ELSE self.hours
        minutes1 == IF carry THEN minutes0 - 60 ELSE minutes0
        hours2   == IF hours1 > 47 THEN hours1 - 48 ELSE hours1
    IN  [hours |-> hours2, minutes |-> minutes1]

\* impl Sub<Time> for Time overflows u8 (a panic in a build with overflow
\* checks): when either component of rhs exceeds that of self
sub_overflows(self, rhs) ==
    \/ self.minutes < rhs.minutes
    \/ self.hours < rhs.hours

\* impl Sub<Time> for Time: sub, in wrapping u8 arithmetic, widened to usize
sub(self, rhs) ==
    LET minutes == (self.minutes - rhs.minutes) % U8Modulus
        hours   == (self.hours - rhs.hours) % U8Modulus
    IN  hours * 60 + minutes

\* #[derive(PartialEq)] on Time: a == b
eq(a, b) == a.hours = b.hours /\ a.minutes = b.minutes

\* the decimal digits, in order of their values
DigitChars == <<"0", "1", "2", "3", "4", "5", "6", "7", "8", "9">>

\* char::to_digit(10): Some(value) for a decimal digit, None otherwise
to_digit(c) ==
    IF \E k \in 1..10 : DigitChars[k] = c
    THEN <<(CHOOSE k \in 1..10 : DigitChars[k] = c) - 1>>
    ELSE <<>>

RECURSIVE fmt_u8(_)
\* Display for u8 ("{}"): the decimal digits, no padding
fmt_u8(n) ==
    IF n < 10 THEN <<DigitChars[n + 1]>>
    ELSE fmt_u8(n \div 10) \o <<DigitChars[(n % 10) + 1]>>

\* "{:02}" for u8: zero-padded to a width of at least two
fmt_u8_02(n) ==
    IF n < 10 THEN <<"0">> \o fmt_u8(n) ELSE fmt_u8(n)

\* impl fmt::Display for Time without the noon / midnight flip of pm
fmt_time_no_flip(self) ==
    LET hours0 == self.hours
        hours1 == IF hours0 > 24 THEN hours0 - 24 ELSE hours0
        over   == hours1 > 12
        hours2 == IF over THEN hours1 - 12 ELSE hours1
        pm     == over
        hours3 == IF hours2 = 0 THEN 12 ELSE hours2
    IN  fmt_u8(hours3) \o <<":">> \o fmt_u8_02(self.minutes) \o <<" ">>
        \o (IF pm THEN <<"P", "M">> ELSE <<"A", "M">>)

\* impl fmt::Display for Time: write!(f, "{}:{:02} {}", hours, minutes, pm)
fmt_time(self) ==
    LET hours0 == self.hours
        hours1 == IF hours0 > 24 THEN hours0 - 24 ELSE hours0
        over   == hours1 > 12
        hours2 == IF over THEN hours1 - 12 ELSE hours1
        pm     == IF hours2 = 12 THEN ~over ELSE over
        hours3 == IF hours2 = 0 THEN 12 ELSE hours2
    IN  fmt_u8(hours3) \o <<":">> \o fmt_u8_02(self.minutes) \o <<" ">>
        \o (IF pm THEN <<"P", "M">> ELSE <<"A", "M">>)

\* str::contains(":")
contains_colon(s) == \E k \in 1..Len(s) : s[k] = ":"

RECURSIVE split_colon(_)
\* str::split(":"): the parts between the colons, empty parts included
split_colon(s) ==
    IF ~contains_colon(s) THEN <<s>>
    ELSE LET k == CHOOSE i \in 1..Len(s) :
                      s[i] = ":" /\ \A j \in 1..(i - 1) : s[j] # ":"
         IN  <<SubSeq(s, 1, k - 1)>> \o split_colon(SubSeq(s, k + 1, Len(s)))

RECURSIVE parse_digits(_, _)
\* the digit loop of u8::from_str: checked multiply by 10 and add
parse_digits(digits, acc) ==
    IF digits = <<>> THEN <<acc>>
    ELSE LET d == to_digit(Head(digits))
         IN  IF d = <<>> THEN <<>>
             ELSE IF acc * 10 + d[1] >= U8Modulus THEN <<>>
             ELSE parse_digits(Tail(digits), acc * 10 + d[1])

\* str::parse::<u8>(): Ok as <<value>>, Err as <<>>; an unsigned integer
\* takes one leading "+" and then needs at least one digit
parse_u8(c) ==
    IF c = <<>> THEN <<>>
    ELSE LET digits == IF Head(c) = "+" THEN Tail(c) ELSE c
         IN  IF digits = <<>> THEN <<>> ELSE parse_digits(digits, 0)

\* Result::unwrap_or_default for u8
unwrap_or_default(r) == IF r = <<>> THEN 0 ELSE r[1]

\* Result<Time, FromStrError>: Ok(time)
Ok(time) == [ok |-> TRUE, time |-> <<time>>, err |-> "none"]

\* Result<Time, FromStrError>: Err(err)
Err(err) == [ok |-> FALSE, time |-> <<>>, err |-> err]

\* impl FromStr for Time taking the first two of more than two parts
from_str_first_two(s) ==
    IF ~contains_colon(s) THEN Err("MissingColon")
    ELSE LET split == split_colon(s)
             parts == [k \in 1..Len(split) |->
                          unwrap_or_default(parse_u8(split[k]))]
         IN  IF Len(parts) < 2 THEN Err("InsufficientComponents")
             ELSE Ok([hours |-> parts[1], minutes |-> parts[2]])

\* impl FromStr for Time: from_str
from_str(s) ==
    IF ~contains_colon(s) THEN Err("MissingColon")
    ELSE LET split == split_colon(s)
             parts == [k \in 1..Len(split) |->
                          unwrap_or_default(parse_u8(split[k]))]
         IN  IF Len(parts) < 2 THEN Err("InsufficientComponents")
             ELSE IF Len(parts) = 2
                  THEN Ok([hours |-> parts[1], minutes |-> parts[2]])
                  ELSE Err("ExtraComponents")

----------------------------------------------------------------------------
(* schedule.rs: Day, Hours, HoursMap, Restaurant *)

\* enum Day
Days ==
    {"Sunday", "Monday", "Tuesday", "Wednesday", "Thursday", "Friday",
     "Saturday"}

\* impl From<i32> for Day
Day_from(index) ==
    CASE index = 0 -> "Sunday"
      [] index = 1 -> "Monday"
      [] index = 2 -> "Tuesday"
      [] index = 3 -> "Wednesday"
      [] index = 4 -> "Thursday"
      [] index = 5 -> "Friday"
      [] OTHER     -> "Saturday"

\* struct Hours
Hours(start_, end_) == [start |-> start_, end |-> end_]

\* impl fmt::Display for Hours
fmt_hours(self) ==
    LET start_ == fmt_time(self.start)
        end_   == fmt_time(self.end)
    IN  IF start_ = end_
        THEN [open24 |-> TRUE, start |-> start_, end |-> end_]
        ELSE [open24 |-> FALSE, start |-> start_, end |-> end_]

\* Restaurant::get_hours
get_hours(self, day) ==
    CASE day = "Sunday"    -> self.hours.sunday
      [] day = "Monday"    -> self.hours.monday
      [] day = "Tuesday"   -> self.hours.tuesday
      [] day = "Wednesday" -> self.hours.wednesday
      [] day = "Thursday"  -> self.hours.thursday
      [] day = "Friday"    -> self.hours.friday
      [] day = "Saturday"  -> self.hours.saturday

\* Restaurant::is_open
is_open(self, day) == get_hours(self, day) # <<>>

\* is_viable with the closing time included in the window
is_viable_closed_end(self, day, time) ==
    LET o == get_hours(self, day)
    IN  IF o = <<>>
        THEN FALSE
        ELSE LET hours == o[1]
                 t     == add(time, 10)
             IN  lt(hours.start, t) /\ ~lt(hours.end, t)

\* Restaurant::is_viable
is_viable(self, day, time) ==
    LET o == get_hours(self, day)
    IN  IF o = <<>>
        THEN FALSE
        ELSE LET hours == o[1]
                 t     == add(time, 10)
             IN  lt(hours.start, t) /\ gt(hours.end, t)

----------------------------------------------------------------------------
(* www.rs: the candidate engine *)

\* get_viable collecting from the back of the catalog
RECURSIVE get_viable_reversed(_, _, _)
get_viable_reversed(list_, day, time) ==
    IF list_ = <<>>
    THEN <<>>
    ELSE LET rest == get_viable_reversed(Tail(list_), day, time)
         IN  IF is_viable(Head(list_), day, time)
             THEN rest \o <<Head(list_)>>
             ELSE rest

\* get_viable: Restaurant::get_list().into_iter().filter(is_viable).collect(),
\* with the clock read once for the whole pass
RECURSIVE get_viable(_, _, _)
get_viable(list_, day, time) ==
    IF list_ = <<>>
    THEN <<>>
    ELSE LET rest == get_viable(Tail(list_), day, time)
         IN  IF is_viable(Head(list_), day, time)
             THEN <<Head(list_)>> \o rest
             ELSE rest

\* Vec::swap(a, b) panics when an index is not below the length
swap_panics(vec, a, b) == a >= Len(vec) \/ b >= Len(vec)

\* Vec::swap(a, b), a and b counted from 0
swap(vec, a, b) ==
    IF swap_panics(vec, a, b)
    THEN vec
    ELSE [k \in 1..Len(vec) |->
             IF k = a + 1 THEN vec[b + 1]
             ELSE IF k = b + 1 THEN vec[a + 1]
             ELSE vec[k]]

\* j counted one too high
shuffle_j_off_by_one(len, i) == len - i + 1

\* shuffle: j = len - i
shuffle_j(len, i) == len - i

\* shuffle: what Math.floor(Math.random() * j) can return
random_index(j) == 0..(j - 1)

\* the loop body swapping into the front position i instead of the tail
shuffle_iter_front(vec, i, index) == swap(vec, index, i)

\* shuffle: the body of the loop, vec.swap(index, j - 1)
shuffle_iter(vec, i, index) == swap(vec, index, shuffle_j(Len(vec), i) - 1)

\* shuffle: the loop from iteration i on, draws[i + 1] being iteration i's
\* random index
RECURSIVE shuffle_from(_, _, _)
shuffle_from(vec, i, draws) ==
    IF i >= Len(vec)
    THEN vec
    ELSE shuffle_from(shuffle_iter(vec, i, draws[i + 1]), i + 1, draws)

\* shuffle(vec) under the random draws `draws`
shuffle(vec, draws) == shuffle_from(vec, 0, draws)

\* every sequence of draws a shuffle of len elements can make
DrawSeqs(len) ==
    {d \in [1..len -> 0..(len - 1)] :
        \A k \in 1..len : d[k] \in random_index(shuffle_j(len, k - 1))}

\* the names of the modelled catalog entries, in String's order
Names == <<"A", "B", "C">>

\* position of a name in String's order
NameRank(name) == CHOOSE k \in 1..Len(Names) : Names[k] = name

\* sort_by_key: where the stable sort puts r among the already sorted
sort_insert(sorted, r) ==
    LET k == Cardinality({x \in 1..Len(sorted) :
                            NameRank(sorted[x].name) <= NameRank(r.name)})
    IN  SubSeq(sorted, 1, k) \o <<r>> \o SubSeq(sorted, k + 1, Len(sorted))

\* sort_by_key(|r| r.name.clone()): a stable sort by name
RECURSIVE sort_by_name(_)
sort_by_name(vec) ==
    IF vec = <<>>
    THEN <<>>
    ELSE sort_insert(sort_by_name(SubSeq(vec, 1, Len(vec) - 1)), vec[Len(vec)])

\* Iterator::filter(..).collect() over a vector, keep deciding by viability
RECURSIVE filter_viability(_, _, _, _)
filter_viability(vec, keep, day, time) ==
    IF vec = <<>>
    THEN <<>>
    ELSE LET rest == filter_viability(Tail(vec), keep, day, time)
         IN  IF is_viable(Head(vec), day, time) = keep
             THEN <<Head(vec)>> \o rest
             ELSE rest

\* tuplify: get_hours(today()).unwrap() panics on a restaurant closed today
tuplify_panics(vec, day) ==
    \E k \in 1..Len(vec) : get_hours(vec[k], day) = <<>>

\* tuplify: one (name, hours, viable) tuple
tuplify_row(r, day, time) ==
    [name   |-> r.name,
     hours  |-> fmt_hours(get_hours(r, day)[1]),
     viable |-> is_viable(r, day, time)]

\* tuplify
tuplify(vec, day, time) ==
    LET viable == sort_by_name(filter_viability(vec, TRUE, day, time))
        not    == sort_by_name(filter_viability(vec, FALSE, day, time))
        all    == viable \o not
    IN  [k \in 1..Len(all) |-> tuplify_row(all[k], day, time)]

----------------------------------------------------------------------------
(* ui.rs: the state kept in the document.  Operators thread a record       *)
(* w = [dom, calls]: the document and the log of functions run so far.     *)
(* Every element the code looks up by id exists in the page, so no         *)
(* GetElementError arises.                                                 *)

\* the glyph set_state(Terminated) puts in #place (a shrug emoji)
ShrugGlyph == "shrug"

\* the text set_state(Terminated) puts in #times
TerminalMessage == "There aren't any places left to eat. Try again?"

\* the document before main() runs
InitialDom ==
    [booted        |-> FALSE,   \* main() has run: list and keys are bound
     panicked      |-> FALSE,   \* a handler panicked
     terminated    |-> FALSE,   \* #next has data-terminated
     tabulating    |-> FALSE,   \* #listings has data-tabulating
     next_display  |-> "hidden",
     next_text     |-> "",
     place         |-> "",
     times         |-> [msg |-> "", hours |-> <<>>],
     listings      |-> <<>>,    \* the children of #listings
     table_display |-> "hidden",
     next_handlers |-> <<>>]    \* the once-listeners of #next: each one's
                                \* captured Vec<Restaurant>

\* append one call to the log
log(w, fn_, arg_) ==
    [w EXCEPT !.calls = Append(@, [fn |-> fn_, arg |-> arg_])]

\* ui::set_state
set_state(w, state) ==
    CASE state = "Terminated" ->
           [w EXCEPT !.dom.next_text  = "restart",
                     !.dom.place      = ShrugGlyph,
                     !.dom.times      = [msg |-> TerminalMessage, hours |-> <<>>],
                     !.dom.terminated = TRUE,
                     !.dom.tabulating = FALSE]
      [] state = "Presenting" ->
           [w EXCEPT !.dom.next_text  = "thumbs down",
                     !.dom.place      = "",
                     !.dom.times      = [msg |-> "", hours |-> <<>>],
                     !.dom.terminated = FALSE,
                     !.dom.tabulating = FALSE]
      [] state = "Tabulating" ->
           [w EXCEPT !.dom.table_display = "block",
                     !.dom.tabulating    = TRUE]

\* ui::get_state looking at data-terminated before data-tabulating
get_state_terminated_first(d) ==
    IF d.terminated
    THEN "Terminated"
    ELSE IF d.tabulating THEN "Tabulating" ELSE "Presenting"

\* ui::get_state
get_state(d) ==
    IF d.tabulating
    THEN "Tabulating"
    ELSE IF d.terminated THEN "Terminated" ELSE "Presenting"

\* ui::set_suggestion, hours being Some(formatted hours) or None for ""
set_suggestion(w, name, hours) ==
    [w EXCEPT !.dom.place = name,
              !.dom.times = [msg |-> "", hours |-> hours]]

\* ui::unhide_button
unhide_button(w) == [w EXCEPT !.dom.next_display = "initial"]

\* ui::tabulate
tabulate(w, restaurants) ==
    set_state(
        [log(w, "tabulate", restaurants) EXCEPT
            !.dom.listings =
                [k \in 1..Len(restaurants) |->
                    [name  |-> restaurants[k].name,
                     hours |-> restaurants[k].hours]]],
        "Tabulating")

\* leaving tabulation by going to Presenting instead of the last-used mode
stop_tabulation_resets(w) ==
    set_state([log(w, "stop_tabulation", <<>>) EXCEPT
                  !.dom.table_display = "none"],
              "Presenting")

\* ui::stop_tabulation (with hide_table)
stop_tabulation(w) ==
    [log(w, "stop_tabulation", <<>>) EXCEPT
        !.dom.table_display = "none",
        !.dom.tabulating    = FALSE]

----------------------------------------------------------------------------
(* www.rs: the suggestion cycle.  env = [catalog, today, now, draws]: what *)
(* get_list(), today(), now() and Math.random() give during one handler.   *)

\* add_event_listener: a once-listener whose closure holds a clone
add_event_listener(w, restaurants) ==
    [w EXCEPT !.dom.next_handlers = Append(@, restaurants)]

\* suggest
suggest(w, restaurant, env) ==
    LET hours == get_hours(restaurant, env.today)
        w1    == log(w, "suggest", <<restaurant>>)
    IN  IF hours # <<>>
        THEN set_suggestion(w1, restaurant.name, <<fmt_hours(hours[1])>>)
        ELSE set_suggestion(w1, restaurant.name, <<>>)

\* end without the set_state call
end_forgets(w) == log(w, "end", <<>>)

\* end
end(w) == set_state(log(w, "end", <<>>), "Terminated")

RECURSIVE next(_, _, _)

\* start binding the handler without the first call of next
start_without_advance(w, env) ==
    LET viable      == get_viable(env.catalog, env.today, env.now)
        restaurants == shuffle(viable, env.draws)
    IN  add_event_listener(
            set_state(log(w, "start", viable), "Presenting"), restaurants)

\* start
start(w, env) ==
    LET viable      == get_viable(env.catalog, env.today, env.now)
        restaurants == shuffle(viable, env.draws)
    IN  next(set_state(log(w, "start", viable), "Presenting"),
             restaurants, env)

\* next reading the last element without popping it
next_keeps(w, restaurants, env) ==
    LET w1 == log(w, "next", restaurants)
    IN  IF get_state(w1.dom) \in {"Presenting", "Terminated"}
        THEN IF restaurants # <<>>
             THEN add_event_listener(
                      suggest(w1, restaurants[Len(restaurants)], env),
                      restaurants)
             ELSE IF get_state(w1.dom) = "Terminated"
                  THEN start(w1, env)
                  ELSE add_event_listener(end(w1), restaurants)
        ELSE add_event_listener(w1, restaurants)

\* next taking the first element (a queue) instead of the last
next_pops_front(w, restaurants, env) ==
    LET w1 == log(w, "next", restaurants)
    IN  IF get_state(w1.dom) \in {"Presenting", "Terminated"}
        THEN IF restaurants # <<>>
             THEN add_event_listener(
                      suggest(w1, restaurants[1], env),
                      SubSeq(restaurants, 2, Len(restaurants)))
             ELSE IF get_state(w1.dom) = "Terminated"
                  THEN start(w1, env)
                  ELSE add_event_listener(end(w1), restaurants)
        ELSE add_event_listener(w1, restaurants)

\* next ending the cycle while one element is left in the Vec
next_ends_with_one_left(w, restaurants, env) ==
    LET w1 == log(w, "next", restaurants)
    IN  IF get_state(w1.dom) \in {"Presenting", "Terminated"}
        THEN IF Len(restaurants) > 1
             THEN add_event_listener(
                      suggest(w1, restaurants[Len(restaurants)], env),
                      SubSeq(restaurants, 1, Len(restaurants) - 1))
             ELSE IF get_state(w1.dom) = "Terminated"
                  THEN start(w1, env)
                  ELSE add_event_listener(end(w1), restaurants)
        ELSE add_event_listener(w1, restaurants)

\* next handing the handler on once more after a restart
next_rebinds_after_restart(w, restaurants, env) ==
    LET w1 == log(w, "next", restaurants)
    IN  IF get_state(w1.dom) \in {"Presenting", "Terminated"}
        THEN IF restaurants # <<>>
             THEN add_event_listener(
                      suggest(w1, restaurants[Len(restaurants)], env),
                      SubSeq(restaurants, 1, Len(restaurants) - 1))
             ELSE IF get_state(w1.dom) = "Terminated"
                  THEN add_event_listener(start(w1, env), restaurants)
                  ELSE add_event_listener(end(w1), restaurants)
        ELSE add_event_listener(w1, restaurants)

\* next going on with the cycle whatever the mode is
next_ignores_mode(w, restaurants, env) ==
    LET w1 == log(w, "next", restaurants)
    IN  IF restaurants # <<>>
        THEN add_event_listener(
                 suggest(w1, restaurants[Len(restaurants)], env),
                 SubSeq(restaurants, 1, Len(restaurants) - 1))
        ELSE IF get_state(w1.dom) = "Terminated"
             THEN start(w1, env)
             ELSE add_event_listener(end(w1), restaurants)

\* next
next(w, restaurants, env) ==
    LET w1 == log(w, "next", restaurants)
    IN  IF get_state(w1.dom) \in {"Presenting", "Terminated"}
        THEN IF restaurants # <<>>
             THEN \* Vec::pop takes the last element
                  add_event_listener(
                      suggest(w1, restaurants[Len(restaurants)], env),
                      SubSeq(restaurants, 1, Len(restaurants) - 1))
             ELSE IF get_state(w1.dom) = "Terminated"
                  THEN start(w1, env)
                  ELSE add_event_listener(end(w1), restaurants)
        ELSE add_event_listener(w1, restaurants)

\* list: a panic in tuplify ends the handler before tabulate
list(w, env) ==
    LET restaurants == get_viable(env.catalog, env.today, env.now)
        w1          == log(w, "list", restaurants)
    IN  IF tuplify_panics(restaurants, env.today)
        THEN [w1 EXCEPT !.dom.panicked = TRUE]
        ELSE tabulate(w1, tuplify(restaurants, env.today, env.now))

\* toggle_list_mode
toggle_list_mode(w, env) ==
    LET w1 == log(w, "toggle_list_mode", <<>>)
    IN  IF get_state(w1.dom) \in {"Terminated", "Presenting"}
        THEN list(w1, env)
        ELSE stop_tabulation(w1)

\* the click event on #next: every once-listener is removed and run, in
\* the order of registration; listeners added meanwhile wait for the next
\* click
RECURSIVE dispatch_next(_, _, _)
dispatch_next(w, handlers, env) ==
    IF handlers = <<>>
    THEN w
    ELSE dispatch_next(next(w, Head(handlers), env), Tail(handlers), env)

----------------------------------------------------------------------------
(* Inputs: catalogs and clock readings *)

\* a Time as from_str gives it for "h:m"
T(h, m) == [hours |-> h, minutes |-> m]

\* Some(Hours) of a day open from h1:m1 to h2:m2
Open(h1, m1, h2, m2) == <<Hours(T(h1, m1), T(h2, m2))>>

\* None: closed that day
Closed == <<>>

\* struct Restaurant, with its HoursMap
Restaurant(name_, sun, mon, tue, wed, thu, fri, sat) ==
    [name  |-> name_,
     hours |-> [sunday |-> sun, monday |-> mon, tuesday |-> tue,
                wednesday |-> wed, thursday |-> thu, friday |-> fri,
                saturday |-> sat]]

\* every sequence over S of length at most n
SeqsUpTo(S, n) == UNION {[1..k -> S] : k \in 0..n}

\* catalog entries of the suggestion cycle: A is open 9:00-17:00 on Monday,
\* B opens when A closes, C is open around the clock on Monday; all three
\* are closed on Tuesday
PoolUI ==
    {Restaurant("A", Closed, Open(9, 0, 17, 0), Closed, Closed, Closed,
                Closed, Closed),
     Restaurant("B", Closed, Open(17, 0, 22, 0), Closed, Closed, Closed,
                Closed, Closed),
     Restaurant("C", Closed, Open(0, 0, 24, 0), Closed, Closed, Closed,
                Closed, Closed)}

\* the readings of the JavaScript clock (getDay(), getHours(),
\* getMinutes()) the suggestion cycle is run at, in the order of time
ClockPoints ==
    <<[day |-> 1, hours |-> 16, minutes |-> 49],
      [day |-> 1, hours |-> 16, minutes |-> 50],
      [day |-> 1, hours |-> 16, minutes |-> 51],
      [day |-> 2, hours |-> 8, minutes |-> 0]>>

\* catalog entries for the direct calls: hours that differ by day, windows
\* whose ends meet time + 10 exactly, a window past midnight, a duplicate
\* name and an entry that is always closed
PoolViable ==
    {Restaurant("A", Closed, Open(9, 0, 17, 0), Open(9, 0, 17, 0),
                Open(9, 0, 17, 0), Open(9, 0, 17, 0), Open(9, 0, 17, 0),
                Closed),
     Restaurant("B", Open(0, 0, 24, 0), Open(9, 30, 17, 1),
                Open(17, 0, 26, 0), Open(16, 60, 23, 0), Open(8, 60, 9, 30),
                Open(23, 0, 24, 9), Closed),
     Restaurant("A", Closed, Open(17, 1, 17, 30), Closed, Closed, Closed,
                Closed, Open(0, 1, 0, 10)),
     Restaurant("C", Closed, Closed, Closed, Closed, Closed, Closed,
                Closed)}

\* the hours and minutes of the clock readings of the direct calls
ViableHours == {0, 8, 9, 16, 17, 23}
ViableMinutes == {0, 20, 49, 50, 51, 59}

\* today(): Date::new().get_day().into()
today_of(clock) == Day_from(clock.day)

\* now(): Time::new(now.get_hours(), now.get_minutes())
now_of(clock) == Time_new(clock.hours, clock.minutes)

----------------------------------------------------------------------------
(* The logs *)

\* no cycle is tracked: none was started, or the clock moved or the list
\* was toggled since the start
NoCycle == [clean |-> FALSE, viable |-> <<>>, shown |-> <<>>, advances |-> 0]

\* shuffle is not running
ShuffleIdle ==
    [pc |-> "idle", input |-> <<>>, vec |-> <<>>, len |-> 0, i |-> 0,
     drawn |-> <<>>, panicked |-> FALSE]

\* no function was called directly
NoRet == [fn |-> "none", arg |-> 0, val |-> 0]

\* the restaurants suggest() was called with, in the order of the log
RECURSIVE Suggested(_)
Suggested(log_) ==
    IF log_ = <<>>
    THEN <<>>
    ELSE IF Head(log_).fn = "suggest"
         THEN <<Head(log_).arg[1]>> \o Suggested(Tail(log_))
         ELSE Suggested(Tail(log_))

\* how often fn_ occurs in the log
Count(log_, fn_) == Cardinality({k \in 1..Len(log_) : log_[k].fn = fn_})

\* the positions of start() in the log
StartsIn(log_) == {k \in 1..Len(log_) : log_[k].fn = "start"}

\* the cycle log after a handler whose log is log_
cycle_after(c, log_) ==
    IF StartsIn(log_) # {}
    THEN LET k     == CHOOSE x \in StartsIn(log_) :
                          \A y \in StartsIn(log_) : y <= x
             tail_ == SubSeq(log_, k, Len(log_))
         IN  [clean    |-> TRUE,
              viable   |-> log_[k].arg,
              shown    |-> Suggested(tail_),
              advances |-> Count(tail_, "next")]
    ELSE IF c.clean
         THEN [c EXCEPT !.shown    = @ \o Suggested(log_),
                        !.advances = @ + Count(log_, "next")]
         ELSE c

----------------------------------------------------------------------------
(* The suggestion cycle as the browser drives it *)

\* what one handler reads from its environment
Env(draws_) ==
    [catalog |-> catalog, today |-> today, now |-> now, draws |-> draws_]

\* the random draws a start() in this state can make
DrawsNow == DrawSeqs(Len(get_viable(catalog, today, now)))

Init ==
    /\ catalog \in SeqsUpTo(PoolUI, MaxCatalog)
    /\ \E k \in 1..Len(ClockPoints) :
          /\ today = today_of(ClockPoints[k])
          /\ now = now_of(ClockPoints[k])
    /\ dom = InitialDom
    /\ calls = <<>>
    /\ cycle = NoCycle
    /\ tab_entry = <<>>
    /\ sh = ShuffleIdle
    /\ ret = NoRet
    /\ text = <<>>

\* main: unhide_button(); start(); bind_keyboard(); bind_list()
Main ==
    /\ ~dom.booted
    /\ \E draws_ \in DrawsNow :
          LET w0 == [dom |-> dom, calls |-> <<[fn |-> "main", arg |-> <<>>]>>]
              w  == start(unhide_button(w0), Env(draws_))
          IN  /\ dom' = [w.dom EXCEPT !.booted = TRUE]
              /\ calls' = w.calls
              /\ cycle' = cycle_after(cycle, w.calls)
    /\ tab_entry' = <<>>
    /\ UNCHANGED <<text, catalog, today, now, sh, ret>>

\* a click on #next: the advance signal
ClickNext ==
    /\ dom.booted /\ ~dom.panicked
    /\ \E draws_ \in DrawsNow :
          LET w0 == [dom   |-> [dom EXCEPT !.next_handlers = <<>>],
                     calls |-> <<[fn |-> "click_next", arg |-> <<>>]>>]
              w  == dispatch_next(w0, dom.next_handlers, Env(draws_))
          IN  /\ dom' = w.dom
              /\ calls' = w.calls
              /\ cycle' = cycle_after(cycle, w.calls)
    /\ tab_entry' = <<>>
    /\ UNCHANGED <<text, catalog, today, now, sh, ret>>

\* a click on #list: the toggle_tabulation signal (bind_list)
ClickList ==
    /\ dom.booted /\ ~dom.panicked
    /\ LET w0 == [dom |-> dom, calls |-> <<[fn |-> "click_list", arg |-> <<>>]>>]
           w  == toggle_list_mode(w0, Env(<<>>))
       IN  /\ dom' = w.dom
           /\ calls' = w.calls
    /\ cycle' = NoCycle
    /\ tab_entry' = IF get_state(dom) = "Tabulating" THEN tab_entry ELSE <<dom>>
    /\ UNCHANGED <<text, catalog, today, now, sh, ret>>

\* the keys bind_keyboard tells apart
Keys == {" ", "l", "x"}

\* bind_keyboard: space clicks #next, l clicks #list, other keys do nothing
KeyUp ==
    \E key \in Keys :
        CASE key = " " -> ClickNext
          [] key = "l" -> ClickList
          [] OTHER     -> UNCHANGED vars

\* time passes between two signals: the clock shows a later reading
Tick ==
    /\ \E k, l \in 1..Len(ClockPoints) :
          /\ k < l
          /\ today = today_of(ClockPoints[k])
          /\ now = now_of(ClockPoints[k])
          /\ today' = today_of(ClockPoints[l])
          /\ now' = now_of(ClockPoints[l])
    /\ calls' = <<>>
    /\ cycle' = NoCycle
    /\ UNCHANGED <<text, catalog, dom, tab_entry, sh, ret>>

Next == Main \/ ClickNext \/ ClickList \/ KeyUp \/ Tick

Spec == Init /\ [][Next]_vars

----------------------------------------------------------------------------
(* Direct calls of is_viable and get_viable *)

InitViable ==
    /\ catalog \in SeqsUpTo(PoolViable, MaxViableCatalog)
    /\ today \in Days
    /\ now \in {Time_new(h, m) : h \in ViableHours, m \in ViableMinutes}
    /\ dom = InitialDom
    /\ calls = <<>>
    /\ cycle = NoCycle
    /\ tab_entry = <<>>
    /\ sh = ShuffleIdle
    /\ ret = NoRet
    /\ text = <<>>

\* catalog[k].is_viable(today, now)
CallIsViable ==
    /\ \E k \in 1..Len(catalog) :
          ret' = [fn |-> "is_viable", arg |-> k,
                  val |-> is_viable(catalog[k], today, now)]
    /\ UNCHANGED <<text, catalog, today, now, dom, calls, cycle, tab_entry, sh>>

\* get_viable()
CallGetViable ==
    /\ ret' = [fn |-> "get_viable", arg |-> 0,
               val |-> get_viable(catalog, today, now)]
    /\ UNCHANGED <<text, catalog, today, now, dom, calls, cycle, tab_entry, sh>>

NextViable == CallIsViable \/ CallGetViable

SpecViable == InitViable /\ [][NextViable]_vars

----------------------------------------------------------------------------
(* One run of shuffle, iteration by iteration *)

InitShuffle ==
    /\ \E v \in SeqsUpTo(1..MaxShuffleLen, MaxShuffleLen) :
          sh = [pc |-> "loop", input |-> v, vec |-> v, len |-> Len(v),
                i |-> 0, drawn |-> <<>>, panicked |-> FALSE]
    /\ catalog = <<>>
    /\ today = "Sunday"
    /\ now = Time_new(0, 0)
    /\ dom = InitialDom
    /\ calls = <<>>
    /\ cycle = NoCycle
    /\ tab_entry = <<>>
    /\ ret = NoRet
    /\ text = <<>>

\* one iteration of `for i in 0..len`
ShuffleIter ==
    /\ sh.pc = "loop"
    /\ sh.i < sh.len
    /\ \E index \in random_index(shuffle_j(sh.len, sh.i)) :
          sh' = IF swap_panics(sh.vec, index, shuffle_j(sh.len, sh.i) - 1)
                THEN [sh EXCEPT !.pc = "panicked", !.panicked = TRUE,
                                !.drawn = Append(@, index)]
                ELSE [sh EXCEPT !.vec = shuffle_iter(sh.vec, sh.i, index),
                                !.i = @ + 1,
                                !.drawn = Append(@, index)]
    /\ UNCHANGED <<text, catalog, today, now, dom, calls, cycle, tab_entry, ret>>

\* the range 0..len is exhausted: shuffle returns
ShuffleReturn ==
    /\ sh.pc = "loop"
    /\ sh.i >= sh.len
    /\ sh' = [sh EXCEPT !.pc = "done"]
    /\ UNCHANGED <<text, catalog, today, now, dom, calls, cycle, tab_entry, ret>>

NextShuffle == ShuffleIter \/ ShuffleReturn

SpecShuffle ==
    InitShuffle /\ [][NextShuffle]_vars /\ WF_vars(NextShuffle)

----------------------------------------------------------------------------
(* Claims about the schedule model, checked under SpecViable *)

\* the field of HoursMap that belongs to a day
FieldOfDay ==
    [Sunday |-> "sunday", Monday |-> "monday", Tuesday |-> "tuesday",
     Wednesday |-> "wednesday", Thursday |-> "thursday", Friday |-> "friday",
     Saturday |-> "saturday"]

\* the Hours entry of restaurant r for a day, <<>> when it has none
HoursOn(r, day) == r.hours[FieldOfDay[day]]

\* a is before b in the lexicographic order on (hours, minutes)
LexLess(a, b) ==
    a.hours < b.hours \/ (a.hours = b.hours /\ a.minutes < b.minutes)

\* the restaurant and the instant the last is_viable call was about
CalledRestaurant == catalog[ret.arg]
CalledInstant == add(now, 10)

\* C1: is_viable(day, time) is false when the restaurant has no Hours entry
\* for the day; otherwise it is true exactly when start < t and end > t for
\* t = add(time, 10) in the Time ordering, so it is false when start or end
\* equals t.
C1_IsViableOpenInterval ==
    ret.fn = "is_viable" =>
        LET o == HoursOn(CalledRestaurant, today)
            t == CalledInstant
        IN  /\ (o = <<>> => ret.val = FALSE)
            /\ (o # <<>> =>
                  /\ ret.val = (LexLess(o[1].start, t) /\ LexLess(t, o[1].end))
                  /\ (o[1].end = t \/ o[1].start = t) => ret.val = FALSE)

\* C1 witness: is_viable was asked at an instant whose time + 10 is exactly
\* the closing time of an open restaurant, and answered false
C1_Witness ==
    /\ ret.fn = "is_viable"
    /\ HoursOn(CalledRestaurant, today) # <<>>
    /\ HoursOn(CalledRestaurant, today)[1].end = CalledInstant
    /\ LexLess(HoursOn(CalledRestaurant, today)[1].start, CalledInstant)
    /\ ret.val = FALSE

\* C2: with hours 9:00-17:00 and the 10-minute buffer, is_viable(day, 16:51)
\* is true and is_viable(day, 16:50) is false.
C2_ClosingBoundary ==
    (/\ ret.fn = "is_viable"
     /\ HoursOn(CalledRestaurant, today) = Open(9, 0, 17, 0)) =>
        /\ (now = T(16, 51) => ret.val = TRUE)
        /\ (now = T(16, 50) => ret.val = FALSE)

\* the positions of the catalog whose entry is viable at the clock's reading
ViableIdx == {i \in 1..Len(catalog) : is_viable(catalog[i], today, now)}

\* the k-th smallest position of a set of positions
NthOf(I, k) == CHOOSE i \in I : Cardinality({x \in I : x < i}) = k - 1

\* C8: get_viable returns exactly the catalog entries for which is_viable
\* holds, each once, in the order of the catalog.
C8_GetViableFilters ==
    ret.fn = "get_viable" =>
        /\ Len(ret.val) = Cardinality(ViableIdx)
        /\ \A k \in 1..Len(ret.val) : ret.val[k] = catalog[NthOf(ViableIdx, k)]

\* C8 witness: get_viable ran on a catalog of three whose middle entry is
\* not viable and whose outer entries are viable and differ
C8_Witness ==
    /\ ret.fn = "get_viable"
    /\ Len(catalog) = 3
    /\ ViableIdx = {1, 3}
    /\ catalog[1] # catalog[3]
    /\ ret.val = <<catalog[1], catalog[3]>>

----------------------------------------------------------------------------
(* Claims about shuffle, checked under SpecShuffle *)

\* how often e occurs in a sequence
Occurrences(seq, e) == Cardinality({k \in 1..Len(seq) : seq[k] = e})

\* the elements of a sequence
Range(seq) == {seq[k] : k \in 1..Len(seq)}

\* two sequences hold the same elements, each as often
SameMultiset(a, b) ==
    \A e \in Range(a) \cup Range(b) : Occurrences(a, e) = Occurrences(b, e)

\* C9: for every input and every sequence of random draws, shuffle
\* terminates, every swap stays inside the bounds of the vector, and the
\* vector keeps its length and its multiset of elements throughout; the
\* vector returned is the one shuffle(input, draws) computes.
C9_ShufflePermutes ==
    /\ [](sh.pc # "idle" =>
            /\ ~sh.panicked
            /\ sh.i <= sh.len
            /\ Len(sh.drawn) = sh.i
            /\ Len(sh.vec) = Len(sh.input)
            /\ SameMultiset(sh.vec, sh.input)
            /\ (sh.pc = "done" =>
                  /\ sh.i = sh.len
                  /\ sh.vec = shuffle(sh.input, sh.drawn)))
    /\ <>(sh.pc = "done")

\* C9 witness: shuffle returned a vector of three with a repeated element,
\* in another order than the input
C9_Witness ==
    /\ sh.pc = "done"
    /\ sh.len = 3
    /\ Cardinality(Range(sh.input)) = 2
    /\ sh.vec # sh.input

RECURSIVE Factorial(_)
Factorial(n) == IF n = 0 THEN 1 ELSE n * Factorial(n - 1)

\* the draws of the claim: the draw of iteration i (from 0) is in [0, n - i)
DrawsOfClaim(n) ==
    {d \in [1..n -> 0..(n - 1)] : \A k \in 1..n : d[k] < n - (k - 1)}

\* every arrangement of the elements of a sequence of distinct elements
Arrangements(seq) ==
    {p \in [1..Len(seq) -> Range(seq)] : Range(p) = Range(seq)}

\* C10: for n distinct elements, the draws map one-to-one onto all n!
\* permutations of the input.
C10_ShuffleUnbiased ==
    (sh.pc # "idle" /\ Cardinality(Range(sh.input)) = sh.len) =>
        LET D == DrawsOfClaim(sh.len)
        IN  /\ Cardinality(D) = Factorial(sh.len)
            /\ \A d1, d2 \in D :
                  shuffle(sh.input, d1) = shuffle(sh.input, d2) => d1 = d2
            /\ {shuffle(sh.input, d) : d \in D} = Arrangements(sh.input)
            /\ (sh.pc = "done" => sh.drawn \in D)

\* C10 witness: shuffle returned three distinct elements in reverse order
C10_Witness ==
    /\ sh.pc = "done"
    /\ sh.input = <<1, 2, 3>>
    /\ sh.vec = <<3, 2, 1>>

----------------------------------------------------------------------------
(* Claims about the suggestion cycle, checked under Spec *)

\* the candidates the pending click handler of #next holds
Queue == IF dom.next_handlers = <<>> THEN <<>> ELSE dom.next_handlers[1]

\* seq lists entries of the catalog at distinct viable positions
FromDistinctViable(seq) ==
    \E f \in [1..Len(seq) -> ViableIdx] :
        /\ \A k, l \in 1..Len(seq) : f[k] = f[l] => k = l
        /\ \A k \in 1..Len(seq) : seq[k] = catalog[f[k]]

\* seq lists every viable entry of the catalog exactly once and nothing else
ExactlyTheViable(seq) ==
    Len(seq) = Cardinality(ViableIdx) /\ FromDistinctViable(seq)

\* the last signal handled was an advance (a click on #next)
AfterAdvance == calls # <<>> /\ calls[1].fn = "click_next"

\* the last signal handled was a toggle_tabulation (a click on #list)
AfterToggle == calls # <<>> /\ calls[1].fn = "click_list"

\* start() ran in the last handler (main's start or a restart)
AfterStart == StartsIn(calls) # {}

\* C3, in every state of a cycle during which the clock stood still and the
\* list was not toggled, n being the number of viable entries: the advances
\* made are 1..n+1; after advance k <= n the mode is Presenting, k
\* restaurants were presented, the k-th being shown, all from distinct
\* viable entries, the other viable entries waiting in the queue; after
\* advance n+1 the mode is Terminated, that advance presented nothing and
\* the restaurants presented are exactly the viable entries.
C3_CycleState ==
    cycle.clean =>
        LET n == Cardinality(ViableIdx)
            k == cycle.advances
        IN  /\ k \in 1..(n + 1)
            /\ cycle.viable = get_viable(catalog, today, now)
            /\ k <= n =>
                  /\ get_state(dom) = "Presenting"
                  /\ Len(cycle.shown) = k
                  /\ dom.place = cycle.shown[k].name
                  /\ ExactlyTheViable(cycle.shown \o Queue)
            /\ k = n + 1 =>
                  /\ get_state(dom) = "Terminated"
                  /\ Suggested(calls) = <<>>
                  /\ dom.place = ShrugGlyph
                  /\ Queue = <<>>
                  /\ ExactlyTheViable(cycle.shown)

\* C3, the step after advance n+1 of such a cycle: the next advance runs
\* start() and is the first advance of a new cycle.
C3_RestartStep ==
    (/\ cycle.clean
     /\ cycle.advances = Cardinality(ViableIdx) + 1
     /\ ClickNext) =>
        /\ Count(calls', "start") = 1
        /\ cycle'.clean
        /\ cycle'.advances = 1

\* C3: a cycle over n viable restaurants presents each of them exactly once
\* in advances 1..n (start's own advance being the first) and no other
\* restaurant, terminates on advance n+1 without presenting anything, and
\* restarts on advance n+2.
C3_CyclePresentsViableOnce == []C3_CycleState /\ [][C3_RestartStep]_vars

\* C3 witness: catalog [viable, not viable, viable]; the third advance has
\* ended the cycle after both viable entries were presented
C3_Witness ==
    /\ cycle.clean
    /\ Len(catalog) = 3
    /\ ViableIdx = {1, 3}
    /\ catalog[1] # catalog[3]
    /\ cycle.advances = 3
    /\ Len(cycle.shown) = 2
    /\ get_state(dom) = "Terminated"

\* C4 as claimed: an advance handled in Terminated always leaves Terminated
\* and re-enters Presenting.
C4_AdvanceLeavesTerminated ==
    [][(get_state(dom) = "Terminated" /\ ClickNext) =>
          get_state(dom') = "Presenting"]_vars

\* C4 amended: an advance handled in Terminated restarts the cycle: start()
\* runs once and recomputes the viable entries; the new queue and the
\* restaurant presented are together exactly the viable entries; with at
\* least one viable entry the mode is Presenting again and the first
\* candidate is shown, with none the mode is Terminated again.
C4_AdvanceRestarts ==
    [][(get_state(dom) = "Terminated" /\ ClickNext) =>
          /\ Count(calls', "start") = 1
          /\ \A k \in StartsIn(calls') :
                calls'[k].arg = get_viable(catalog, today, now)
          /\ Len(dom'.next_handlers) = 1
          /\ ExactlyTheViable(Suggested(calls') \o dom'.next_handlers[1])
          /\ IF ViableIdx # {}
             THEN /\ get_state(dom') = "Presenting"
                  /\ Len(Suggested(calls')) = 1
                  /\ dom'.place = Suggested(calls')[1].name
             ELSE /\ get_state(dom') = "Terminated"
                  /\ Suggested(calls') = <<>>]_vars

\* C4 witness: an advance in Terminated has restarted the cycle over two
\* viable entries: one is shown, the other waits in the queue
C4_Witness ==
    /\ AfterAdvance
    /\ AfterStart
    /\ calls[2].fn = "next" /\ calls[2].arg = <<>>
    /\ get_state(dom) = "Presenting"
    /\ Cardinality(ViableIdx) = 2
    /\ Len(Queue) = 1

\* C5, after start(): with an empty catalog or no viable entry the mode is
\* Terminated, nothing was presented and nothing failed.
C5_StartWithoutCandidates ==
    (AfterStart /\ ViableIdx = {}) =>
        /\ get_state(dom) = "Terminated"
        /\ Suggested(calls) = <<>>
        /\ dom.place = ShrugGlyph
        /\ ~dom.panicked
        /\ dom.next_handlers = <<(<<>>)>>

\* C5, an advance in Presenting with an empty queue: the mode becomes
\* Terminated and nothing is presented.
C5_EmptyQueueStep ==
    (get_state(dom) = "Presenting" /\ Queue = <<>> /\ ClickNext) =>
        /\ get_state(dom') = "Terminated"
        /\ Suggested(calls') = <<>>
        /\ ~dom'.panicked

\* C5: when the catalog is empty or none of its entries is viable, start
\* and every restart end in Terminated at once, presenting nothing and
\* without failing; an advance in Presenting with an empty queue always
\* goes to Terminated.
C5_NoCandidatesTerminates ==
    []C5_StartWithoutCandidates /\ [][C5_EmptyQueueStep]_vars

\* C5 witness: a restart by an advance, over a catalog that is not empty
\* and has no viable entry, has ended in Terminated
C5_Witness ==
    /\ AfterAdvance
    /\ AfterStart
    /\ catalog # <<>>
    /\ ViableIdx = {}
    /\ get_state(dom) = "Terminated"

\* C6: after two consecutive toggle_tabulation signals from Presenting or
\* Terminated the mode is the one before the first, and the queue of the
\* pending handler and the suggestion shown are unchanged; in between, in
\* Tabulating, queue and suggestion are unchanged as well.
C6_ToggleTwiceRestores ==
    (AfterToggle /\ tab_entry # <<>>) =>
        LET before == tab_entry[1]
        IN  /\ get_state(before) \in {"Presenting", "Terminated"}
            /\ dom.next_handlers = before.next_handlers
            /\ dom.place = before.place
            /\ dom.times = before.times
            /\ dom.terminated = before.terminated
            /\ IF Count(calls, "stop_tabulation") = 1
               THEN get_state(dom) = get_state(before)
               ELSE get_state(dom) = "Tabulating"

\* C6 witness: tabulation was entered from Presenting with a restaurant
\* shown and a candidate left in the queue, and has been left again
C6_Witness ==
    /\ AfterToggle
    /\ tab_entry # <<>>
    /\ Count(calls, "stop_tabulation") = 1
    /\ get_state(dom) = "Presenting"
    /\ dom.place \in {"A", "B", "C"}
    /\ Len(Queue) >= 1

\* the rows tabulate() was given by the last handler
ListingRows ==
    LET k == CHOOSE x \in 1..Len(calls) : calls[x].fn = "tabulate"
    IN  calls[k].arg

\* C7: the listing built when entering Tabulating has one row for every
\* catalog entry, viable or not, is sorted by name ascending, and each
\* row's flag is is_viable of its restaurant at the current day and time.
C7_ListingCoversCatalog ==
    (AfterToggle /\ Count(calls, "tabulate") = 1) =>
        LET rows == ListingRows
        IN  /\ Len(rows) = Len(catalog)
            /\ \E f \in [1..Len(rows) -> 1..Len(catalog)] :
                  /\ \A k, l \in 1..Len(rows) : f[k] = f[l] => k = l
                  /\ \A k \in 1..Len(rows) :
                        /\ rows[k].name = catalog[f[k]].name
                        /\ rows[k].viable = is_viable(catalog[f[k]], today, now)
            /\ \A k, l \in 1..Len(rows) :
                  k < l => NameRank(rows[k].name) <= NameRank(rows[l].name)

----------------------------------------------------------------------------
(* Direct calls of Time + u8 (schedule.rs, impl Add<u8> for Time) *)

\* the Times of the data model: hours 0..47, minutes 0..59
ModelTimes == {Time_new(h, m) : h \in 0..47, m \in 0..59}

\* the offsets added: around the carry (sum 60 / 61), the 10 of is_viable,
\* around the u8 limit of the minutes sum (255 / 256), and both ends of u8
AddOffsets == {0, 1, 2, 10, 59, 60, 61, 120, 196, 197, 254, 255}

InitAdd ==
    /\ catalog = <<>>
    /\ today = "Sunday"
    /\ now \in ModelTimes
    /\ dom = InitialDom
    /\ calls = <<>>
    /\ cycle = NoCycle
    /\ tab_entry = <<>>
    /\ sh = ShuffleIdle
    /\ ret = NoRet
    /\ text = <<>>

\* now + rhs, in a build with (debug) or without (release) overflow checks:
\* with the checks an overflowing addition panics and yields no Time
CallAdd ==
    /\ \E rhs \in AddOffsets, overflow_checks \in BOOLEAN :
          ret' = [fn |-> "add", arg |-> rhs,
                  val |-> [overflow |-> add_overflows(now, rhs),
                           time |-> IF add_overflows(now, rhs)
                                       /\ overflow_checks
                                    THEN <<>> ELSE <<add(now, rhs)>>]]
    /\ UNCHANGED <<text, catalog, today, now, dom, calls, cycle, tab_entry, sh>>

NextAdd == CallAdd

SpecAdd == InitAdd /\ [][NextAdd]_vars

\* C11: for every Time t with hours in 0..47 and minutes in 0..59 and every
\* offset m in 0..255, t + m completes in u8 arithmetic without overflow and
\* yields a Time whose hours lie in 0..47.
C11_AddWithinU8 ==
    (ret.fn = "add" /\ now \in ModelTimes /\ ret.arg \in 0..255)
    => /\ ~ret.val.overflow
       /\ ret.val.time # <<>>
       /\ ret.val.time[1].hours \in 0..47

\* C12: t + m carries into the hours exactly when the summed minutes are
\* strictly greater than 60: a sum of at most 60 is kept as the minutes with
\* the hours unchanged; a greater sum loses exactly 60 minutes, once, and
\* the hours gain exactly 1 (48 hours being 0, the wrap of the same add).
C12_CarryAboveSixty ==
    (ret.fn = "add")
    => LET sum == now.minutes + ret.arg
           r   == ret.val.time
       IN  /\ r # <<>>
           /\ sum <= 60 => r[1] = [hours |-> now.hours, minutes |-> sum]
           /\ sum > 60 => /\ r[1].minutes = sum - 60
                          /\ r[1].hours = (now.hours + 1) % 48

----------------------------------------------------------------------------
(* Direct calls of Time - Time (schedule.rs, impl Sub<Time> for Time) *)

\* the Times subtracted: both sides of the hour and of midnight (24:00)
SubTimes == {Time_new(h, m) : h \in {0, 1, 2, 23, 24, 47},
                              m \in {0, 1, 29, 30, 59}}

InitSub ==
    /\ catalog = <<>>
    /\ today = "Sunday"
    /\ now \in SubTimes
    /\ dom = InitialDom
    /\ calls = <<>>
    /\ cycle = NoCycle
    /\ tab_entry = <<>>
    /\ sh = ShuffleIdle
    /\ ret = NoRet
    /\ text = <<>>

\* now - rhs, in a build with (debug) or without (release) overflow checks:
\* with the checks an overflowing subtraction panics and yields no value
CallSub ==
    /\ \E rhs \in SubTimes, overflow_checks \in BOOLEAN :
          ret' = [fn |-> "sub", arg |-> rhs,
                  val |-> [overflow |-> sub_overflows(now, rhs),
                           minutes |-> IF sub_overflows(now, rhs)
                                          /\ overflow_checks
                                       THEN <<>> ELSE <<sub(now, rhs)>>]]
    /\ UNCHANGED <<text, catalog, today, now, dom, calls, cycle, tab_entry, sh>>

NextSub == CallSub

SpecSub == InitSub /\ [][NextSub]_vars

\* C13: for all Times a >= b (in the Time ordering), a - b equals
\* (a.hours - b.hours) * 60 + (a.minutes - b.minutes), the minutes from b to
\* a, and is computed without underflow, also when a.minutes < b.minutes.
C13_DifferenceInMinutes ==
    (ret.fn = "sub" /\ ~lt(now, ret.arg))
    => /\ ~ret.val.overflow
       /\ ret.val.minutes # <<>>
       /\ ret.val.minutes[1] = (now.hours - ret.arg.hours) * 60
                                + (now.minutes - ret.arg.minutes)

----------------------------------------------------------------------------
(* Direct calls of the comparisons of Time (schedule.rs, PartialOrd and the
   derived PartialEq) *)

\* the Times compared: both sides of midnight (24:00) and of the hour
OrderTimes == {Time_new(h, m) : h \in {0, 1, 24, 25, 47}, m \in {0, 30, 59}}

InitOrder ==
    /\ catalog = <<>>
    /\ today = "Sunday"
    /\ now \in OrderTimes
    /\ dom = InitialDom
    /\ calls = <<>>
    /\ cycle = NoCycle
    /\ tab_entry = <<>>
    /\ sh = ShuffleIdle
    /\ ret = NoRet
    /\ text = <<>>

\* the comparisons among now, b and c
CallCmp ==
    /\ \E b \in OrderTimes, c \in OrderTimes :
          ret' = [fn |-> "cmp", arg |-> <<b, c>>,
                  val |-> [ab |-> partial_cmp(now, b),
                           ba |-> partial_cmp(b, now),
                           bc |-> partial_cmp(b, c),
                           ac |-> partial_cmp(now, c),
                           eq_ab |-> eq(now, b),
                           eq_ba |-> eq(b, now)]]
    /\ UNCHANGED <<text, catalog, today, now, dom, calls, cycle, tab_entry, sh>>

NextOrder == CallCmp

SpecOrder == InitOrder /\ [][NextOrder]_vars

\* C14: the Time ordering is the lexicographic order on (hours, minutes)
\* with no midnight normalisation: exactly one of a < b, a == b, a > b
\* holds; a == b iff both components are equal; a > b iff a.hours > b.hours
\* or the hours are equal and a.minutes > b.minutes; the order is transitive
\* and agrees with the derived equality.
C14_LexicographicOrder ==
    (ret.fn = "cmp")
    => LET a == now
           b == ret.arg[1]
           v == ret.val
       IN  /\ v.ab \in {"Less", "Equal", "Greater"}
           /\ v.eq_ab <=> (a.hours = b.hours /\ a.minutes = b.minutes)
           /\ (v.ab = "Equal") <=> v.eq_ab
           /\ v.eq_ab <=> v.eq_ba
           /\ (v.ab = "Greater")
                 <=> \/ a.hours > b.hours
                     \/ (a.hours = b.hours /\ a.minutes > b.minutes)
           /\ (v.ab = "Less")
                 <=> \/ a.hours < b.hours
                     \/ (a.hours = b.hours /\ a.minutes < b.minutes)
           /\ (v.ab = "Less") <=> (v.ba = "Greater")
           /\ (v.ab = "Less" /\ v.bc = "Less") => v.ac = "Less"
           /\ (v.ab = "Greater" /\ v.bc = "Greater") => v.ac = "Greater"
           /\ (v.ab = "Equal" /\ v.bc = "Equal") => v.ac = "Equal"

\* C14 witness: 25:00 compared with 1:00 and 0:59: greater than both, equal
\* to neither
C14_Witness ==
    /\ ret.fn = "cmp"
    /\ now = [hours |-> 25, minutes |-> 0]
    /\ ret.arg = <<[hours |-> 1, minutes |-> 0], [hours |-> 0, minutes |-> 59]>>
    /\ ret.val.ab = "Greater" /\ ret.val.bc = "Greater" /\ ret.val.ac = "Greater"
    /\ ~ret.val.eq_ab

----------------------------------------------------------------------------
(* Direct calls of the formatting of Time (schedule.rs, impl Display) *)

InitDisplay ==
    /\ catalog = <<>>
    /\ today = "Sunday"
    /\ now \in ModelTimes
    /\ dom = InitialDom
    /\ calls = <<>>
    /\ cycle = NoCycle
    /\ tab_entry = <<>>
    /\ sh = ShuffleIdle
    /\ ret = NoRet
    /\ text = <<>>

\* format!("{}", now)
CallFmt ==
    /\ ret' = [fn |-> "fmt", arg |-> 0, val |-> fmt_time(now)]
    /\ UNCHANGED <<text, catalog, today, now, dom, calls, cycle, tab_entry, sh>>

NextDisplay == CallFmt

SpecDisplay == InitDisplay /\ [][NextDisplay]_vars

\* the 12-hour display of the clock: hour h mod 12 (0 shown as 12), a colon,
\* the minutes as two digits, a space, PM exactly when h mod 24 >= 12
ClockDisplay(h, m) ==
    LET shown == IF h % 12 = 0 THEN 12 ELSE h % 12
    IN  (IF shown >= 10 THEN <<"1", DigitChars[shown - 9]>>
                        ELSE <<DigitChars[shown + 1]>>)
        \o <<":", DigitChars[(m \div 10) + 1], DigitChars[(m % 10) + 1], " ">>
        \o (IF h % 24 >= 12 THEN <<"P", "M">> ELSE <<"A", "M">>)

\* C15: for every Time with hours h in 0..47 the formatted text is the
\* 12-hour display of the clock: the hour shown is in 1..12 and is h mod 12
\* (0 as 12), the minutes are shown unchanged with two digits, and the
\* meridiem is PM exactly when h mod 24 >= 12 (13:05 is "1:05 PM", 0:00 and
\* 24:00 are "12:00 AM", 12:00 and 36:00 are "12:00 PM").
C15_TwelveHourDisplay ==
    (ret.fn = "fmt" /\ now.hours \in 0..47 /\ now.minutes \in 0..59)
    => /\ ret.val = ClockDisplay(now.hours, now.minutes)
       /\ now = [hours |-> 13, minutes |-> 5]
             => ret.val = <<"1", ":", "0", "5", " ", "P", "M">>
       /\ (now.hours \in {0, 24} /\ now.minutes = 0)
             => ret.val = <<"1", "2", ":", "0", "0", " ", "A", "M">>
       /\ (now.hours \in {12, 36} /\ now.minutes = 0)
             => ret.val = <<"1", "2", ":", "0", "0", " ", "P", "M">>

\* C15 witness: 36:00 has been formatted, as noon
C15_Witness ==
    /\ ret.fn = "fmt"
    /\ now = [hours |-> 36, minutes |-> 0]
    /\ ret.val = <<"1", "2", ":", "0", "0", " ", "P", "M">>

----------------------------------------------------------------------------
(* Direct calls of the parsing of Time (schedule.rs, impl FromStr) *)

\* the characters of the strs parsed: digits (256 does not fit u8), the
\* separator, a sign and a letter
TextChars == {"0", "2", "5", "6", ":", "+", "x"}

InitParse ==
    /\ catalog = <<>>
    /\ today = "Sunday"
    /\ now = Time_new(0, 0)
    /\ dom = InitialDom
    /\ calls = <<>>
    /\ cycle = NoCycle
    /\ tab_entry = <<>>
    /\ sh = ShuffleIdle
    /\ ret = NoRet
    /\ text \in SeqsUpTo(TextChars, MaxTextLen)

\* text.parse::<Time>()
CallFromStr ==
    /\ ret' = [fn |-> "from_str", arg |-> 0, val |-> from_str(text)]
    /\ UNCHANGED <<text, catalog, today, now, dom, calls, cycle, tab_entry, sh>>

NextParse == CallFromStr

SpecParse == InitParse /\ [][NextParse]_vars

\* the number of colons of a str
Colons(s) == Cardinality({k \in 1..Len(s) : s[k] = ":"})

RECURSIVE PlaceValue(_)
\* the number a sequence of decimal digits denotes
PlaceValue(d) ==
    IF d = <<>> THEN 0
    ELSE 10 * PlaceValue(SubSeq(d, 1, Len(d) - 1)) + to_digit(d[Len(d)])[1]

\* a part as a component of a Time: its number when it is a decimal numeral
\* (an optional + sign, then digits) denoting at most 255, and 0 otherwise
ComponentOf(part) ==
    LET d == IF part # <<>> /\ part[1] = "+"
             THEN SubSeq(part, 2, Len(part)) ELSE part
    IN  IF d # <<>> /\ (\A k \in 1..Len(d) : to_digit(d[k]) # <<>>)
           /\ PlaceValue(d) <= 255
        THEN PlaceValue(d) ELSE 0

\* C16: parsing classifies every str by its colon-separated parts: no colon
\* fails with MissingColon; fewer than two parts fails with
\* InsufficientComponents; more than two parts fails with ExtraComponents;
\* exactly two parts succeed with hours = first part, minutes = second part,
\* a part that is not a number representable in 8 bits being taken as 0.
C16_ParseClassifiesByParts ==
    (ret.fn = "from_str")
    => LET n == Colons(text) + 1
           k == CHOOSE i \in 1..Len(text) : text[i] = ":"
       IN  /\ Colons(text) = 0 => ret.val = Err("MissingColon")
           /\ (Colons(text) > 0 /\ n < 2)
                 => ret.val = Err("InsufficientComponents")
           /\ (Colons(text) > 0 /\ n > 2)
                 => ret.val = Err("ExtraComponents")
           /\ (Colons(text) > 0 /\ n = 2)
                 => ret.val =
                      Ok([hours |-> ComponentOf(SubSeq(text, 1, k - 1)),
                          minutes |->
                              ComponentOf(SubSeq(text, k + 1, Len(text)))])

\* C16 witness: "256:5" has been parsed: two parts, the first out of u8
C16_Witness ==
    /\ ret.fn = "from_str"
    /\ text = <<"2", "5", "6", ":", "5">>
    /\ ret.val = Ok([hours |-> 0, minutes |-> 5])

----------------------------------------------------------------------------
(* Direct calls of the functions of ui.rs, in any order *)

\* enum State
States == {"Presenting", "Terminated", "Tabulating"}

\* the restaurant the calls of set_suggestion and tabulate are about
UiRestaurant ==
    Restaurant("A", Closed, Open(9, 0, 17, 0), Closed, Closed, Closed,
               Closed, Closed)

InitUi ==
    /\ catalog = <<>>
    /\ today = Day_from(1)
    /\ now = Time_new(12, 0)
    /\ dom = InitialDom
    /\ calls = <<>>
    /\ cycle = NoCycle
    /\ tab_entry = <<>>
    /\ sh = ShuffleIdle
    /\ ret = NoRet
    /\ text = <<>>

\* ui::set_state(state) and then ui::get_state()
UiSetState ==
    /\ \E state \in States :
          LET w == set_state([dom |-> dom, calls |-> calls], state)
          IN  /\ dom' = w.dom
              /\ ret' = [fn |-> "set_state", arg |-> state,
                         val |-> [state  |-> get_state(w.dom),
                                  before |-> [terminated |-> dom.terminated,
                                              tabulating |-> dom.tabulating],
                                  after  |-> [terminated |-> w.dom.terminated,
                                              tabulating |-> w.dom.tabulating]]]
    /\ UNCHANGED <<text, catalog, today, now, calls, cycle, tab_entry, sh>>

\* ui::set_suggestion(name, hours)
UiSetSuggestion ==
    /\ \E hours \in {<<>>, <<fmt_hours(get_hours(UiRestaurant, today)[1])>>} :
          dom' = set_suggestion([dom |-> dom, calls |-> calls],
                                UiRestaurant.name, hours).dom
    /\ UNCHANGED <<text, catalog, today, now, calls, cycle, tab_entry, sh, ret>>

\* ui::unhide_button()
UiUnhideButton ==
    /\ dom' = unhide_button([dom |-> dom, calls |-> calls]).dom
    /\ UNCHANGED <<text, catalog, today, now, calls, cycle, tab_entry, sh, ret>>

\* ui::tabulate(restaurants)
UiTabulate ==
    /\ \E restaurants \in {<<>>, tuplify(<<UiRestaurant>>, today, now)} :
          dom' = tabulate([dom |-> dom, calls |-> calls], restaurants).dom
    /\ UNCHANGED <<text, catalog, today, now, calls, cycle, tab_entry, sh, ret>>

\* ui::stop_tabulation()
UiStopTabulation ==
    /\ dom' = stop_tabulation([dom |-> dom, calls |-> calls]).dom
    /\ UNCHANGED <<text, catalog, today, now, calls, cycle, tab_entry, sh, ret>>

NextUi ==
    \/ UiSetState
    \/ UiSetSuggestion
    \/ UiUnhideButton
    \/ UiTabulate
    \/ UiStopTabulation

SpecUi == InitUi /\ [][NextUi]_vars

\* C17: for each state s and from any prior state, get_state called right
\* after set_state(s) returns s; set_state(Presenting) and
\* set_state(Terminated) clear the tabulating flag, and set_state(Tabulating)
\* leaves the terminated flag as it was.
C17_SetThenGet ==
    (ret.fn = "set_state")
    => /\ ret.val.state = ret.arg
       /\ ret.arg \in {"Presenting", "Terminated"} => ~ret.val.after.tabulating
       /\ ret.arg = "Tabulating"
             => ret.val.after.terminated = ret.val.before.terminated

\* C17 witness: set_state(Tabulating) has been called with the terminated
\* flag set and the tabulating flag clear, and get_state gave Tabulating
C17_Witness ==
    /\ ret.fn = "set_state"
    /\ ret.arg = "Tabulating"
    /\ ret.val.before = [terminated |-> TRUE, tabulating |-> FALSE]
    /\ ret.val.after.terminated
    /\ ret.val.state = "Tabulating"

----------------------------------------------------------------------------
(* The advance signal and the handler of #next (www.rs) *)

\* C18: an advance handled in Presenting with a non-empty queue removes
\* exactly one element, the last one, presents it as the current suggestion
\* (its name, and its hours of today if it has any), leaves the remaining
\* elements in their order and leaves the mode Presenting.
C18_AdvancePopsTail ==
    [][(get_state(dom) = "Presenting" /\ Queue # <<>> /\ ClickNext) =>
          LET last_ == Queue[Len(Queue)]
          IN  /\ dom'.next_handlers = <<SubSeq(Queue, 1, Len(Queue) - 1)>>
              /\ Suggested(calls') = <<last_>>
              /\ dom'.place = last_.name
              /\ dom'.times.msg = ""
              /\ dom'.times.hours =
                    (IF HoursOn(last_, today) = <<>>
                     THEN <<>>
                     ELSE <<fmt_hours(HoursOn(last_, today)[1])>>)
              /\ get_state(dom') = "Presenting"]_vars

\* C18 witness: an advance in Presenting has presented the last of two
\* queued restaurants of different names; the other one still waits
C18_Witness ==
    /\ AfterAdvance
    /\ ~AfterStart
    /\ Len(calls) >= 2 /\ calls[2].fn = "next" /\ Len(calls[2].arg) = 2
    /\ calls[2].arg[1].name # calls[2].arg[2].name
    /\ Suggested(calls) = <<calls[2].arg[2]>>
    /\ Queue = <<calls[2].arg[1]>>
    /\ get_state(dom) = "Presenting"

\* C19: in every reachable state, if the terminated flag is set (mode
\* Terminated, or Tabulating entered from Terminated) then the queue held by
\* the pending advance handler is empty: the flag is never set while
\* candidates remain.
C19_TerminatedMeansEmptyQueue ==
    dom.terminated
    => /\ get_state(dom) \in {"Terminated", "Tabulating"}
       /\ \A k \in 1..Len(dom.next_handlers) : dom.next_handlers[k] = <<>>

\* C19 witness: a cycle over viable entries has ended, the list was then
\* toggled on, and an advance was handled in Tabulating: the terminated flag
\* is still set and the pending handler holds the empty queue
C19_Witness ==
    /\ AfterAdvance
    /\ dom.terminated /\ dom.tabulating
    /\ ViableIdx # {}
    /\ dom.next_handlers = <<(<<>>)>>

\* C20: after main's start and after every advance handled to completion,
\* in every mode and on every path through next (suggest, end, the restart
\* through start, the Tabulating branch), exactly one one-shot click handler
\* is registered on #next.
C20_OneHandler ==
    dom.booted => Len(dom.next_handlers) = 1

\* C20 witness: an advance in Terminated has restarted the cycle through
\* start, and one handler is registered
C20_Witness ==
    /\ AfterAdvance
    /\ AfterStart
    /\ Len(calls) >= 2 /\ calls[2].fn = "next" /\ calls[2].arg = <<>>
    /\ ViableIdx # {}
    /\ Len(dom.next_handlers) = 1

\* C21: an advance handled while the mode is Tabulating changes nothing: the
\* document is as before (mode Tabulating, the same queue in the one pending
\* handler, the same suggestion, the same terminated flag) and neither
\* suggest, end nor start ran; and the signal is not replayed when
\* tabulation ends: the toggle leaving Tabulating runs no next, presents
\* nothing and leaves queue, suggestion and terminated flag as they are.
C21_AdvanceIgnoredWhileTabulating ==
    [][/\ (get_state(dom) = "Tabulating" /\ ClickNext) =>
             /\ dom' = dom
             /\ get_state(dom') = "Tabulating"
             /\ Suggested(calls') = <<>>
             /\ Count(calls', "end") = 0
             /\ Count(calls', "start") = 0
       /\ (get_state(dom) = "Tabulating" /\ ClickList) =>
             /\ Count(calls', "next") = 0
             /\ Suggested(calls') = <<>>
             /\ Count(calls', "start") = 0
             /\ dom'.next_handlers = dom.next_handlers
             /\ dom'.place = dom.place
             /\ dom'.times = dom.times
             /\ dom'.terminated = dom.terminated]_vars

\* C21 witness: an advance was handled in Tabulating, entered from
\* Presenting with a suggestion shown and a candidate still queued
C21_Witness ==
    /\ AfterAdvance
    /\ get_state(dom) = "Tabulating"
    /\ ~dom.terminated
    /\ dom.place # ""
    /\ Len(dom.next_handlers) = 1 /\ Queue # <<>>
    /\ Len(calls) = 2 /\ calls[2].fn = "next" /\ calls[2].arg = Queue

====
